---- MODULE Spec2Model ----
(***************************************************************************)
(* A model of the travel planner repository:                               *)
(*   - streamlit_app.py: the planner UI, one script run per user action    *)
(*     (widget values, the search form, run_search, the result tabs);      *)
(*   - debug_ai.py: the diagnostics script (GOOGLE_API_KEY classification  *)
(*     and one CrewAI round trip).                                         *)
(* The backend (gemini2_travel_v2) and CrewAI are external: each call to   *)
(* them returns or raises, chosen nondeterministically.                    *)
(***************************************************************************)
EXTENDS Integers, Sequences, FiniteSets, TLC

VARIABLES
    \* ---- streamlit_app.py: widget values (they survive between runs)
    search_mode,             \* st.radio "Search Mode"
    origin,                  \* st.text_input "Departure Airport"
    destination,             \* st.text_input "Arrival Airport"
    outbound_date,           \* st.date_input "Departure Date"
    return_date,             \* st.date_input "Return Date"
    use_flight_destination,  \* st.checkbox
    hotel_text,              \* text of st.text_input "Hotel Location"
    hotel_field_shown,       \* whether the last run rendered that field
    check_in_date,           \* st.date_input "Check-In Date"
    check_out_date,          \* st.date_input "Check-Out Date"
    \* ---- streamlit_app.py: one script run
    pc,                      \* position of the script run
    submit_button,           \* value of st.form_submit_button in the latest run
    location,                \* hotel location computed by the form
    flight_req,              \* <<>> or <<FlightRequest>>
    hotel_req,               \* <<>> or <<HotelRequest>>
    search_result,           \* <<>> (None) or <<SearchResult>>
    tabs,                    \* labels of the tabs st.tabs created in this run
    shown,                   \* elements this run has put on the page, in order
    crashed,                 \* the run ended in an uncaught exception
    \* ---- the backend seen from the UI
    calls,                   \* backend calls made by this run, in order
    inflight,                \* number of backend calls awaiting completion
    response,                \* what the backend answered in this run
    prev_outcome,            \* history: how the previous submission ended
    \* ---- debug_ai.py
    api_key,                 \* <<>> (None) or <<string>>
    d_pc,                    \* position of the diagnostics script
    out,                     \* lines printed so far
    attempts,                \* times the connection test was entered
    kickoffs,                \* times crew.kickoff() was called
    exit_code                \* -1 while running, then the process's exit code

ui_vars == <<search_mode, origin, destination, outbound_date, return_date,
             use_flight_destination, hotel_text, hotel_field_shown,
             check_in_date, check_out_date, pc, submit_button, location,
             flight_req, hotel_req, search_result, tabs, shown, crashed,
             calls, inflight, response, prev_outcome>>

diag_vars == <<api_key, d_pc, out, attempts, kickoffs, exit_code>>

vars == <<ui_vars, diag_vars>>

(***************************************************************************)
(* Bounds of the model.                                                    *)
(***************************************************************************)
MaxFlights == 3
MaxHotels == 4
MaxPad == 31

(***************************************************************************)
(* streamlit_app.py: constants and values.                                 *)
(***************************************************************************)
ModeComplete == "Complete (Flights + Hotels + Itinerary)"
ModeFlights == "Flights Only"
ModeHotels == "Hotels Only"
Modes == {ModeComplete, ModeFlights, ModeHotels}

\* Texts a user may have in the airport fields and the hotel field.
Origins == {"", "ATL"}
Destinations == {"", "LAX"}
HotelTexts == {"", "Paris"}

\* Dates as days from today: the defaults are tomorrow and tomorrow + 7.
Tomorrow == 1
NextWeek == Tomorrow + 7
Days == {Tomorrow, NextWeek}

\* str(date)
DateStr(d) == "day+" \o ToString(d)

\* Python's None and a present value.
None == <<>>
Some(v) == <<v>>
Truthy(v) == v # None

ErrMsgs == {"", "quota exceeded"}

MsgValidation == "Please provide origin and destination."
MsgNoFlights == "No flights found."
MsgNoHotels == "No hotels found."
ItineraryFile == "itinerary.md"

FlightColumns == 2
HotelColumns == 3

\* An element put on the page: the tab it is written to (-1: outside the
\* tabs), its kind, its text, and for a card its item and display column.
El(tab, kind, text, item, col) ==
    [tab |-> tab, kind |-> kind, text |-> text, item |-> item, col |-> col]

FlightRequest(o, d, ob, rt) ==
    [origin |-> o, destination |-> d, outbound_date |-> ob, return_date |-> rt]

HotelRequest(l, ci, co) ==
    [location |-> l, check_in_date |-> ci, check_out_date |-> co]

\* What the backend can return: any number of flights and hotels.
Items(n) == [i \in 1..n |-> i]
SearchResults ==
    { [flights |-> Items(nf), hotels |-> Items(nh),
       ai_flight_recommendation |-> "flight analysis",
       ai_hotel_recommendation |-> "hotel analysis",
       itinerary |-> "itinerary text"] :
      nf \in 0..MaxFlights, nh \in 0..MaxHotels }

NoResponse == [kind |-> "none", msg |-> "", value |-> None]

\* A backend call: the entry point and the keyword arguments passed.
Call(fn, fr, hr) == [fn |-> fn, flight_request |-> fr, hotel_request |-> hr]

\* Faulty variant: the presence check joined with "and"
ValidationFailsBoth(o, d) == o = "" /\ d = ""

\* line 131: not origin or not destination
ValidationFails(o, d) == o = "" \/ d = ""

\* Faulty variant: the toggle is ignored
FormLocationAlwaysDestination(toggle, dest, text) == dest

\* lines 78-82: the hotel location the form computes
FormLocation(toggle, dest, text) == IF toggle THEN dest ELSE text

\* Faulty variant: "Hotels Only" wired to the flights entry point
DispatchCallSwapped(mode, fr, hr) ==
    IF mode = ModeComplete THEN <<Call("complete_travel_search", fr, hr)>>
    ELSE <<Call("search_flights_endpoint", fr, None)>>

\* Faulty variant: "Complete" gathers the two single searches concurrently
DispatchCallGather(mode, fr, hr) ==
    IF mode = ModeComplete
    THEN <<Call("search_flights_endpoint", fr, None), Call("search_hotels_endpoint", None, hr)>>
    ELSE IF mode = ModeFlights THEN <<Call("search_flights_endpoint", fr, None)>>
    ELSE <<Call("search_hotels_endpoint", None, hr)>>

\* lines 113-121: the entry point run_search awaits
DispatchCall(mode, fr, hr) ==
    IF mode = ModeComplete THEN <<Call("complete_travel_search", fr, hr)>>
    ELSE IF mode = ModeFlights THEN <<Call("search_flights_endpoint", fr, None)>>
    ELSE IF mode = ModeHotels THEN <<Call("search_hotels_endpoint", None, hr)>>
    ELSE <<>>

\* Faulty variant: a failed search returns an empty result object
ExceptResultEmpty ==
    Some([flights |-> <<>>, hotels |-> <<>>, ai_flight_recommendation |-> "",
          ai_hotel_recommendation |-> "", itinerary |-> ""])

\* lines 125-127: what run_search returns when the backend raised
ExceptResult == None
ExceptMessage(msg) == "Search failed: " \o msg

\* lines 144-149
TabLabels(mode) ==
    IF mode = ModeFlights THEN <<"Flights", "AI Recommendation">>
    ELSE IF mode = ModeHotels THEN <<"Hotels", "AI Recommendation">>
    ELSE <<"Flights", "Hotels", "AI Recommendations", "Itinerary">>

\* lines 152, 169, 189, 193, 198: which panels a mode populates
FlightsPanel(mode) == mode # ModeHotels
HotelsPanel(mode) == mode # ModeFlights
ItineraryPanel(mode) == mode = ModeComplete

\* Faulty variant: the recommendation tab index of the combined mode, in every mode
RecTabIdxComplete(mode) == 2

\* tab indices (0-based, as in the code)
FlightsTabIdx == 0
HotelsTabIdx(mode) == IF mode = ModeComplete THEN 1 ELSE 0
RecTabIdx(mode) == IF mode # ModeComplete THEN 1 ELSE 2
ItineraryTabIdx == 3

\* tabs[i]: an index outside the list raises IndexError
TabExists(i) == i >= 0 /\ i < Len(tabs)

\* Faulty variant: no notice for an empty flights sequence
FlightsElementsSilent(r) ==
    <<El(0, "subheader", "Flight Options (" \o ToString(Len(r.flights)) \o ")", 0, 0)>>
    \o [i \in 1..Len(r.flights) |-> El(0, "flight_card", "", r.flights[i], (i - 1) % 2)]

\* lines 154-166: the flights panel for a result
FlightsElements(r) ==
    <<El(FlightsTabIdx, "subheader", "Flight Options (" \o ToString(Len(r.flights)) \o ")", 0, 0)>>
    \o (IF Len(r.flights) > 0
        THEN [i \in 1..Len(r.flights) |->
                 El(FlightsTabIdx, "flight_card", "", r.flights[i], (i - 1) % FlightColumns)]
        ELSE <<El(FlightsTabIdx, "info", MsgNoFlights, 0, 0)>>)

\* lines 172-184: the hotels panel for a result
HotelsElements(mode, r) ==
    <<El(HotelsTabIdx(mode), "subheader", "Hotel Options (" \o ToString(Len(r.hotels)) \o ")", 0, 0)>>
    \o (IF Len(r.hotels) > 0
        THEN [i \in 1..Len(r.hotels) |->
                 El(HotelsTabIdx(mode), "hotel_card", "", r.hotels[i], (i - 1) % HotelColumns)]
        ELSE <<El(HotelsTabIdx(mode), "info", MsgNoHotels, 0, 0)>>)

\* lines 188-195: the recommendation panel
RecElements(mode, r) ==
    (IF FlightsPanel(mode)
     THEN <<El(RecTabIdx(mode), "flight_analysis", r.ai_flight_recommendation, 0, 0)>>
     ELSE <<>>)
    \o (IF HotelsPanel(mode)
        THEN <<El(RecTabIdx(mode), "hotel_analysis", r.ai_hotel_recommendation, 0, 0)>>
        ELSE <<>>)

\* lines 199-207: the itinerary panel and its download button
ItineraryElements(r) ==
    <<El(ItineraryTabIdx, "subheader", "Your AI-Generated Itinerary", 0, 0),
      El(ItineraryTabIdx, "itinerary", r.itinerary, 0, 0),
      El(ItineraryTabIdx, "download", ItineraryFile, 0, 0)>>

(***************************************************************************)
(* streamlit_app.py: the user's actions between runs.                      *)
(***************************************************************************)
form_vars == <<origin, destination, outbound_date, return_date,
               use_flight_destination, hotel_text, check_in_date, check_out_date>>

run_vars == <<pc, submit_button, location, flight_req, hotel_req, search_result,
              tabs, shown, crashed, calls, inflight, response, prev_outcome>>

\* Editing a form field changes the widget only: a form batches its widgets'
\* values until the submit button is pressed.
EditOrigin ==
    /\ pc = "idle"
    /\ \E o \in Origins : origin' = o /\ o # origin
    /\ UNCHANGED <<destination, outbound_date, return_date, use_flight_destination,
                   hotel_text, check_in_date, check_out_date>>
    /\ UNCHANGED <<search_mode, hotel_field_shown, run_vars, diag_vars>>

EditDestination ==
    /\ pc = "idle"
    /\ \E d \in Destinations : destination' = d /\ d # destination
    /\ UNCHANGED <<origin, outbound_date, return_date, use_flight_destination,
                   hotel_text, check_in_date, check_out_date>>
    /\ UNCHANGED <<search_mode, hotel_field_shown, run_vars, diag_vars>>

EditDates ==
    /\ pc = "idle"
    /\ \E ob \in Days, rt \in Days, ci \in Days, co \in Days :
          /\ <<ob, rt, ci, co>> # <<outbound_date, return_date, check_in_date, check_out_date>>
          /\ outbound_date' = ob
          /\ return_date' = rt
          /\ check_in_date' = ci
          /\ check_out_date' = co
    /\ UNCHANGED <<origin, destination, use_flight_destination, hotel_text>>
    /\ UNCHANGED <<search_mode, hotel_field_shown, run_vars, diag_vars>>

ToggleUseFlightDestination ==
    /\ pc = "idle"
    /\ use_flight_destination' = ~use_flight_destination
    /\ UNCHANGED <<origin, destination, outbound_date, return_date,
                   hotel_text, check_in_date, check_out_date>>
    /\ UNCHANGED <<search_mode, hotel_field_shown, run_vars, diag_vars>>

\* The hotel field can be typed into only when the last run rendered it.
EditHotelLocation ==
    /\ pc = "idle"
    /\ hotel_field_shown
    /\ \E t \in HotelTexts : hotel_text' = t /\ t # hotel_text
    /\ UNCHANGED <<origin, destination, outbound_date, return_date,
                   use_flight_destination, check_in_date, check_out_date>>
    /\ UNCHANGED <<search_mode, hotel_field_shown, run_vars, diag_vars>>

(***************************************************************************)
(* streamlit_app.py: script runs.                                          *)
(***************************************************************************)
\* A rerun without the submit action: the radio is outside the form, so a
\* change of mode reruns the script with submit_button = False. The run
\* redraws the page from the values of the last submission and ends at
\* line 129.
ChangeModeRun ==
    /\ pc = "idle"
    /\ \E m \in Modes : search_mode' = m /\ m # search_mode
    /\ submit_button' = FALSE
    /\ location' = None
    /\ flight_req' = None
    /\ hotel_req' = None
    /\ search_result' = None
    /\ tabs' = <<>>
    /\ shown' = <<>>
    /\ calls' = <<>>
    /\ response' = NoResponse
    /\ crashed' = FALSE
    /\ UNCHANGED <<pc, inflight, hotel_field_shown, form_vars, prev_outcome, diag_vars>>

\* Faulty variant: the page of the previous run is kept and added to
ClickSearchKeepsPage ==
    /\ pc = "idle"
    /\ submit_button' = TRUE
    /\ location' = Some(IF use_flight_destination THEN destination ELSE hotel_text)
    /\ hotel_field_shown' = ~use_flight_destination
    /\ hotel_text' = IF use_flight_destination THEN "" ELSE hotel_text
    /\ flight_req' = None
    /\ hotel_req' = None
    /\ search_result' = None
    /\ tabs' = <<>>
    /\ shown' = SelectSeq(shown, LAMBDA e : e.tab < 0)
    /\ calls' = <<>>
    /\ response' = NoResponse
    /\ crashed' = FALSE
    /\ pc' = "validate"
    /\ UNCHANGED <<search_mode, origin, destination, outbound_date, return_date,
                   use_flight_destination, check_in_date, check_out_date,
                   inflight, prev_outcome, diag_vars>>

\* Pressing Search: the form's values reach the script, which runs lines
\* 1-89: the form is redrawn and location is computed (lines 78-82). A
\* widget that a run does not render loses its value.
ClickSearch ==
    /\ pc = "idle"
    /\ submit_button' = TRUE
    /\ location' = Some(FormLocation(use_flight_destination, destination, hotel_text))
    /\ hotel_field_shown' = ~use_flight_destination
    /\ hotel_text' = IF use_flight_destination THEN "" ELSE hotel_text
    /\ flight_req' = None
    /\ hotel_req' = None
    /\ search_result' = None
    /\ tabs' = <<>>
    /\ shown' = <<>>
    /\ calls' = <<>>
    /\ response' = NoResponse
    /\ crashed' = FALSE
    /\ pc' = "validate"
    /\ UNCHANGED <<search_mode, origin, destination, outbound_date, return_date,
                   use_flight_destination, check_in_date, check_out_date,
                   inflight, prev_outcome, diag_vars>>

\* lines 129-134
Validate ==
    /\ pc = "validate"
    /\ submit_button
    /\ IF ValidationFails(origin, destination)
       THEN /\ shown' = Append(shown, El(-1, "error", MsgValidation, 0, 0))
            /\ pc' = "done"
       ELSE /\ shown' = shown
            /\ pc' = "run_search"
    /\ UNCHANGED <<search_mode, hotel_field_shown, form_vars, submit_button, location,
                   flight_req, hotel_req, search_result, tabs, crashed, calls,
                   inflight, response, prev_outcome, diag_vars>>

\* lines 95-121: run_search builds both requests and awaits one entry point
RunSearch ==
    /\ pc = "run_search"
    /\ LET fr == FlightRequest(origin, destination,
                               DateStr(outbound_date), DateStr(return_date))
           hr == HotelRequest(location[1],
                              DateStr(check_in_date), DateStr(check_out_date))
           cs == DispatchCall(search_mode, Some(fr), Some(hr))
       IN /\ flight_req' = Some(fr)
          /\ hotel_req' = Some(hr)
          /\ calls' = calls \o cs
          /\ inflight' = inflight + Len(cs)
          /\ pc' = IF cs = <<>> THEN "returned" ELSE "awaiting"
    /\ UNCHANGED <<search_mode, hotel_field_shown, form_vars, submit_button, location,
                   search_result, tabs, shown, crashed, response, prev_outcome, diag_vars>>

\* lines 115-123, 136: the awaited call returns a result
BackendReturns ==
    /\ pc = "awaiting"
    /\ \E r \in SearchResults :
          /\ response' = [kind |-> "return", msg |-> "", value |-> Some(r)]
          /\ search_result' = Some(r)
    /\ inflight' = inflight - 1
    /\ pc' = "returned"
    /\ UNCHANGED <<search_mode, hotel_field_shown, form_vars, submit_button, location,
                   flight_req, hotel_req, tabs, shown, crashed, calls, prev_outcome,
                   diag_vars>>

\* lines 125-127, 136: the awaited call raises an Exception
BackendRaises ==
    /\ pc = "awaiting"
    /\ \E msg \in ErrMsgs :
          /\ response' = [kind |-> "raise", msg |-> msg, value |-> None]
          /\ shown' = Append(shown, El(-1, "error", ExceptMessage(msg), 0, 0))
    /\ search_result' = ExceptResult
    /\ inflight' = inflight - 1
    /\ pc' = "returned"
    /\ UNCHANGED <<search_mode, hotel_field_shown, form_vars, submit_button, location,
                   flight_req, hotel_req, tabs, crashed, calls, prev_outcome, diag_vars>>

\* lines 138-149: the spinner is gone; a truthy result gets its tabs
DisplayResults ==
    /\ pc = "returned"
    /\ IF Truthy(search_result)
       THEN /\ tabs' = TabLabels(search_mode)
            /\ pc' = "flights_tab"
       ELSE /\ tabs' = tabs
            /\ pc' = "done"
    /\ UNCHANGED <<search_mode, hotel_field_shown, form_vars, submit_button, location,
                   flight_req, hotel_req, search_result, shown, crashed, calls,
                   inflight, response, prev_outcome, diag_vars>>

\* A render step: writes the elements to the tab, or the run dies with an
\* IndexError when the tab does not exist.
RenderStep(here, next, enabled, idx, elements) ==
    /\ pc = here
    /\ IF ~enabled
       THEN /\ pc' = next
            /\ UNCHANGED <<shown, crashed>>
       ELSE IF TabExists(idx)
       THEN /\ shown' = shown \o elements
            /\ pc' = next
            /\ UNCHANGED crashed
       ELSE /\ crashed' = TRUE
            /\ pc' = "done"
            /\ UNCHANGED shown
    /\ UNCHANGED <<search_mode, hotel_field_shown, form_vars, submit_button, location,
                   flight_req, hotel_req, search_result, tabs, calls,
                   inflight, response, prev_outcome, diag_vars>>

\* lines 151-166
RenderFlightsTab ==
    RenderStep("flights_tab", "hotels_tab", FlightsPanel(search_mode),
               FlightsTabIdx, FlightsElements(search_result[1]))

\* lines 168-184
RenderHotelsTab ==
    RenderStep("hotels_tab", "rec_tab", HotelsPanel(search_mode),
               HotelsTabIdx(search_mode), HotelsElements(search_mode, search_result[1]))

\* lines 186-195
RenderRecommendationsTab ==
    RenderStep("rec_tab", "itinerary_tab", TRUE,
               RecTabIdx(search_mode), RecElements(search_mode, search_result[1]))

\* lines 197-207
RenderItineraryTab ==
    RenderStep("itinerary_tab", "done", ItineraryPanel(search_mode),
               ItineraryTabIdx, ItineraryElements(search_result[1]))

\* The script has reached its last line: its variables are discarded, the
\* page stays as drawn until the next run.
ScriptEnds ==
    /\ pc = "done"
    /\ pc' = "idle"
    /\ location' = None
    /\ flight_req' = None
    /\ hotel_req' = None
    /\ search_result' = None
    /\ calls' = <<>>
    /\ response' = NoResponse
    /\ prev_outcome' = IF response.kind = "none" THEN "invalid" ELSE response.kind
    /\ UNCHANGED <<search_mode, hotel_field_shown, form_vars, submit_button, tabs, shown,
                   crashed, inflight, diag_vars>>

UIInit ==
    /\ search_mode = ModeComplete
    /\ origin = "ATL"
    /\ destination = "LAX"
    /\ outbound_date = Tomorrow
    /\ return_date = NextWeek
    /\ use_flight_destination = TRUE
    /\ hotel_text = ""
    /\ hotel_field_shown = FALSE
    /\ check_in_date = Tomorrow
    /\ check_out_date = NextWeek
    /\ pc = "idle"
    /\ submit_button = FALSE
    /\ location = None
    /\ flight_req = None
    /\ hotel_req = None
    /\ search_result = None
    /\ tabs = <<>>
    /\ shown = <<>>
    /\ crashed = FALSE
    /\ calls = <<>>
    /\ inflight = 0
    /\ response = NoResponse
    /\ prev_outcome = "none"

DiagIdle ==
    /\ api_key = None
    /\ d_pc = "not_started"
    /\ out = <<>>
    /\ attempts = 0
    /\ kickoffs = 0
    /\ exit_code = -1

Init == UIInit /\ DiagIdle

Next ==
    \/ EditOrigin
    \/ EditDestination
    \/ EditDates
    \/ ToggleUseFlightDestination
    \/ EditHotelLocation
    \/ ChangeModeRun
    \/ ClickSearch
    \/ Validate
    \/ RunSearch
    \/ BackendReturns
    \/ BackendRaises
    \/ DisplayResults
    \/ RenderFlightsTab
    \/ RenderHotelsTab
    \/ RenderRecommendationsTab
    \/ RenderItineraryTab
    \/ ScriptEnds

Spec == Init /\ [][Next]_vars

(***************************************************************************)
(* debug_ai.py: the diagnostics script.                                    *)
(***************************************************************************)
Placeholder == "your_google_api_key_here"
MinKeyLen == 30
PrefixLen == 6

RECURSIVE Pad(_)
Pad(n) == IF n = 0 THEN "" ELSE "x" \o Pad(n - 1)

\* Values of GOOGLE_API_KEY: unset, or a text built around the placeholder,
\* a cut placeholder, or nothing, padded on both sides.
KeyCores == {"", Placeholder, "your_google_api_key"}
KeyTexts == { Pad(a) \o c \o Pad(b) : a \in 0..MaxPad, b \in 0..MaxPad, c \in KeyCores }
Keys == {None} \cup { Some(k) : k \in KeyTexts }

\* Python's `sub in s`
Contains(sub, s) ==
    \E i \in 1..(Len(s) - Len(sub) + 1) : SubSeq(s, i, i + Len(sub) - 1) = sub

\* Python's s[:n]
Prefix(s, n) == SubSeq(s, 1, IF Len(s) < n THEN Len(s) ELSE n)

StartsWith(s, p) == Len(s) >= Len(p) /\ SubSeq(s, 1, Len(p)) = p

\* line 17: not api_key (None or the empty string)
KeyMissing(key) == key = None \/ key[1] = ""

\* Faulty variant: the placeholder test as an equality
IsPlaceholder(k) == k = Placeholder

\* line 21
LooksLikePlaceholder(k) == Contains(Placeholder, k)

\* line 23
TooShort(k) == Len(k) < MinKeyLen

LineAbsent == "ERROR: GOOGLE_API_KEY not found in environment or .env file"
LineSet == "API Key is set (Length: "
LinePlaceholder == "CRITICAL ERROR: API Key appears to be the PLACEHOLDER string!"
LineTooShort == "WARNING: API Key seems too short ("
LineValid == "API Key seems valid format (starts with: "

\* lines 17-27: the lines the key check prints
KeyReport(key) ==
    IF KeyMissing(key) THEN <<LineAbsent>>
    ELSE LET k == key[1] IN
         <<LineSet \o ToString(Len(k)) \o ")">>
         \o (IF LooksLikePlaceholder(k) THEN <<LinePlaceholder>>
             ELSE IF TooShort(k)
             THEN <<LineTooShort \o ToString(Len(k)) \o " chars). Real keys are usually longer.",
                    "Value: " \o k>>
             ELSE <<LineValid \o Prefix(k, PrefixLen) \o "...)">>)

ExcTexts == {"", "API key not valid"}
ExcTypes == {"AuthenticationError", "ValueError"}

ui_idle == UNCHANGED ui_vars

\* lines 8-12
ImportCrewAI ==
    /\ d_pc = "import"
    /\ \/ /\ d_pc' = "check_key"
          /\ UNCHANGED <<out, exit_code>>
       \/ /\ out' = Append(out, "ImportError: No module named 'crewai'")
          /\ exit_code' = 1
          /\ d_pc' = "exited"
    /\ UNCHANGED <<api_key, attempts, kickoffs>>
    /\ ui_idle

\* Faulty variant: a missing key ends the script
CheckKeyFatal ==
    /\ d_pc = "check_key"
    /\ out' = out \o <<"Checking API Key configuration...">> \o KeyReport(api_key)
    /\ IF KeyMissing(api_key)
       THEN d_pc' = "exited" /\ exit_code' = 1
       ELSE d_pc' = "test" /\ UNCHANGED exit_code
    /\ UNCHANGED <<api_key, attempts, kickoffs>>
    /\ ui_idle

\* lines 14-27
CheckKey ==
    /\ d_pc = "check_key"
    /\ out' = out \o <<"Checking API Key configuration...">> \o KeyReport(api_key)
    /\ d_pc' = "test"
    /\ UNCHANGED <<api_key, attempts, kickoffs, exit_code>>
    /\ ui_idle

\* lines 29-34
StartConnectionTest ==
    /\ d_pc = "test"
    /\ out' = out \o <<"Testing CrewAI / Gemini Connection...",
                       "Initializing LLM with model: gemini/gemini-1.5-flash">>
    /\ attempts' = attempts + 1
    /\ d_pc' = "build"
    /\ UNCHANGED <<api_key, kickoffs, exit_code>>
    /\ ui_idle

\* lines 61-65
Failure(text, type) ==
    <<"FAILURE! Error details:", text, "Error Type: " \o type>>

\* lines 36-55: LLM, Agent, Task and Crew are constructed
BuildCrew ==
    /\ d_pc = "build"
    /\ d_pc' = "kickoff"
    /\ UNCHANGED <<api_key, out, attempts, kickoffs, exit_code>>
    /\ ui_idle

\* lines 36-55, 61-65: one of the constructors raises
BuildCrewRaises ==
    /\ d_pc = "build"
    /\ \E text \in ExcTexts, type \in ExcTypes : out' = out \o Failure(text, type)
    /\ d_pc' = "end"
    /\ UNCHANGED <<api_key, attempts, kickoffs, exit_code>>
    /\ ui_idle

\* lines 57-58: crew.kickoff() is called
Kickoff ==
    /\ d_pc = "kickoff"
    /\ out' = Append(out, "Starting Crew execution...")
    /\ kickoffs' = kickoffs + 1
    /\ d_pc' = "in_kickoff"
    /\ UNCHANGED <<api_key, attempts, exit_code>>
    /\ ui_idle

\* lines 58-59
KickoffReturns ==
    /\ d_pc = "in_kickoff"
    /\ out' = Append(out, "SUCCESS! Result from AI: Connection is working")
    /\ d_pc' = "end"
    /\ UNCHANGED <<api_key, attempts, kickoffs, exit_code>>
    /\ ui_idle

\* lines 58, 61-65
KickoffRaises ==
    /\ d_pc = "in_kickoff"
    /\ \E text \in ExcTexts, type \in ExcTypes : out' = out \o Failure(text, type)
    /\ d_pc' = "end"
    /\ UNCHANGED <<api_key, attempts, kickoffs, exit_code>>
    /\ ui_idle

\* the end of the file: the interpreter exits with code 0
DiagEnds ==
    /\ d_pc = "end"
    /\ exit_code' = 0
    /\ d_pc' = "exited"
    /\ UNCHANGED <<api_key, out, attempts, kickoffs>>
    /\ ui_idle

DiagInit ==
    /\ UIInit
    /\ api_key \in Keys
    /\ d_pc = "import"
    /\ out = <<>>
    /\ attempts = 0
    /\ kickoffs = 0
    /\ exit_code = -1

DiagNext ==
    \/ ImportCrewAI
    \/ CheckKey
    \/ StartConnectionTest
    \/ BuildCrew
    \/ BuildCrewRaises
    \/ Kickoff
    \/ KickoffReturns
    \/ KickoffRaises
    \/ DiagEnds

DiagSpec == DiagInit /\ [][DiagNext]_vars

(***************************************************************************)
(* Properties of streamlit_app.py, checked under Spec.                     *)
(***************************************************************************)
\* A submit run is in progress or has just reached its last line.
Running == pc # "idle"
InputMissing == origin = "" \/ destination = ""
\* The submission passed validation and run_search has made its call.
Dispatched == pc \notin {"idle", "validate", "run_search"} /\ ~InputMissing

KindShown(k) == \E i \in DOMAIN shown : shown[i].kind = k
TextShown(k, t) == \E i \in DOMAIN shown : shown[i].kind = k /\ shown[i].text = t
PanelShown == \E i \in DOMAIN shown : shown[i].tab >= 0
SubheaderShown(p) ==
    \E i \in DOMAIN shown : shown[i].kind = "subheader" /\ StartsWith(shown[i].text, p)

\* C1: on every submission, in every mode: with origin and destination both
\* non-empty the submission proceeds to run_search and shows no validation
\* error; with either empty no request is built, no backend entry point is
\* called, no tab or panel is rendered, and the page shows exactly the error
\* "Please provide origin and destination.".
C1_ValidationGatesDispatch ==
    Running =>
        /\ InputMissing =>
              /\ flight_req = None /\ hotel_req = None
              /\ calls = <<>> /\ inflight = 0
              /\ tabs = <<>> /\ ~PanelShown
              /\ pc \in {"validate", "done"}
              /\ pc = "done" =>
                    shown = <<El(-1, "error", "Please provide origin and destination.", 0, 0)>>
        /\ ~InputMissing =>
              /\ ~TextShown("error", "Please provide origin and destination.")
              /\ Dispatched => flight_req # None /\ hotel_req # None /\ Len(calls) >= 1

C1_Witness ==
    /\ pc = "done"
    /\ search_mode = ModeHotels
    /\ origin = "ATL" /\ destination = ""
    /\ calls = <<>>
    /\ TextShown("error", "Please provide origin and destination.")

\* C2: every submission that passes validation makes exactly one backend
\* call, the one its mode selects, with the requests of that mode only:
\* search_flights_endpoint(flight request) for "Flights Only",
\* search_hotels_endpoint(hotel request) for "Hotels Only",
\* complete_travel_search(both) for "Complete"; this stays so whether the
\* call returns or raises.
C2_ExactlyOneEntryPoint ==
    (Running /\ Dispatched) =>
        /\ Len(calls) = 1
        /\ flight_req # None /\ hotel_req # None
        /\ search_mode = "Flights Only" =>
              calls[1] = [fn |-> "search_flights_endpoint",
                          flight_request |-> flight_req, hotel_request |-> None]
        /\ search_mode = "Hotels Only" =>
              calls[1] = [fn |-> "search_hotels_endpoint",
                          flight_request |-> None, hotel_request |-> hotel_req]
        /\ search_mode = "Complete (Flights + Hotels + Itinerary)" =>
              calls[1] = [fn |-> "complete_travel_search",
                          flight_request |-> flight_req, hotel_request |-> hotel_req]

C2_Witness ==
    /\ pc = "done"
    /\ search_mode = ModeHotels
    /\ response.kind = "raise"
    /\ Len(calls) = 1
    /\ calls[1].fn = "search_hotels_endpoint"

\* C3: in every dispatched submission the hotel request's location is the
\* flight request's destination when the toggle is on, and the text of the
\* hotel-location field when it is off (the empty text included, which is
\* also what a toggle switched off in the same submission gives).
C3_HotelLocation ==
    (Running /\ Dispatched) =>
        /\ hotel_req # None /\ flight_req # None
        /\ hotel_req[1].location =
              IF use_flight_destination THEN flight_req[1].destination ELSE hotel_text
        /\ flight_req[1].destination = destination

C3_Witness ==
    /\ pc = "done"
    /\ ~use_flight_destination
    /\ hotel_req # None
    /\ hotel_req[1].location = "Paris"
    /\ flight_req[1].destination = "LAX"

\* C4: in every mode, when the backend call raises, the page shows exactly
\* "Search failed: <message>", run_search returns None, no tab or panel is
\* rendered, no further backend call is made, and the run goes on to its end
\* without an uncaught exception.
C4_BackendFailure ==
    (Running /\ response.kind = "raise") =>
        /\ pc \in {"returned", "done"}
        /\ search_result = None
        /\ shown = <<El(-1, "error", "Search failed: " \o response.msg, 0, 0)>>
        /\ tabs = <<>> /\ ~PanelShown
        /\ Len(calls) = 1 /\ inflight = 0
        /\ ~crashed

C4_Witness ==
    /\ pc = "done"
    /\ search_mode = ModeFlights
    /\ response.kind = "raise"
    /\ TextShown("error", "Search failed: quota exceeded")
    /\ ~crashed

\* C5 (as stated): every returned result with an empty flights sequence gets
\* the notice "No flights found." and no flight card, and every result with
\* an empty hotels sequence gets "No hotels found." and no hotel card.
C5_Original ==
    (pc = "done" /\ search_result # None) =>
        /\ Len(search_result[1].flights) = 0 =>
              TextShown("info", "No flights found.") /\ ~KindShown("flight_card")
        /\ Len(search_result[1].hotels) = 0 =>
              TextShown("info", "No hotels found.") /\ ~KindShown("hotel_card")

\* C5 (amended): the notice belongs to the panel: a returned result with an
\* empty flights sequence gets "No flights found." and no flight card in
\* every mode other than "Hotels Only", and one with an empty hotels
\* sequence gets "No hotels found." and no hotel card in every mode other
\* than "Flights Only".
C5_EmptyNotice ==
    (pc = "done" /\ search_result # None) =>
        /\ (search_mode # "Hotels Only" /\ Len(search_result[1].flights) = 0) =>
              TextShown("info", "No flights found.") /\ ~KindShown("flight_card")
        /\ (search_mode # "Flights Only" /\ Len(search_result[1].hotels) = 0) =>
              TextShown("info", "No hotels found.") /\ ~KindShown("hotel_card")

C5_Witness ==
    /\ pc = "done"
    /\ search_mode = ModeComplete
    /\ search_result # None
    /\ Len(search_result[1].flights) = 0
    /\ Len(search_result[1].hotels) > 0
    /\ TextShown("info", "No flights found.")

\* C8: for every returned result the run creates 2 tabs in the two single
\* modes and 4 in "Complete", writes only to tabs it created, and fills the
\* panels by mode alone: flights and the flight analysis iff the mode is not
\* "Hotels Only", hotels and the hotel analysis iff it is not "Flights
\* Only", the itinerary with its itinerary.md download iff it is "Complete".
C8_TabsByMode ==
    /\ ~crashed
    /\ (Running /\ tabs # <<>>) =>
          Len(tabs) = IF search_mode = "Complete (Flights + Hotels + Itinerary)" THEN 4 ELSE 2
    /\ Running => \A i \in DOMAIN shown : shown[i].tab < Len(tabs)
    /\ (pc = "done" /\ search_result # None) =>
          /\ tabs # <<>>
          /\ SubheaderShown("Flight Options") <=> search_mode # "Hotels Only"
          /\ KindShown("flight_analysis") <=> search_mode # "Hotels Only"
          /\ SubheaderShown("Hotel Options") <=> search_mode # "Flights Only"
          /\ KindShown("hotel_analysis") <=> search_mode # "Flights Only"
          /\ KindShown("itinerary") <=>
                search_mode = "Complete (Flights + Hotels + Itinerary)"
          /\ TextShown("download", "itinerary.md") <=>
                search_mode = "Complete (Flights + Hotels + Itinerary)"
          /\ KindShown("download") => TextShown("download", "itinerary.md")

C8_Witness ==
    /\ pc = "done"
    /\ search_mode = ModeHotels
    /\ search_result # None
    /\ Len(tabs) = 2
    /\ KindShown("hotel_analysis")
    /\ \E i \in DOMAIN shown : shown[i].tab = 1

\* C9: a submission goes validate, dispatch, completion, render: at most one
\* backend call is in flight, a call is in flight only in a submit run whose
\* origin and destination passed validation, tabs and panels appear only
\* after that run's call has returned, and a run without the submit action
\* calls nothing and renders nothing.
C9_SubmissionOrder ==
    /\ inflight <= 1
    /\ inflight > 0 => (pc = "awaiting" /\ submit_button /\ ~InputMissing)
    /\ (Running /\ calls # <<>>) => ~InputMissing
    /\ (Running /\ (tabs # <<>> \/ PanelShown)) =>
          (response.kind = "return" /\ inflight = 0 /\ Len(calls) = 1)
    /\ pc = "awaiting" => (inflight = 1 /\ response.kind = "none" /\ shown = <<>>)
    /\ ~submit_button => (calls = <<>> /\ inflight = 0 /\ tabs = <<>> /\ shown = <<>>)

C9_Witness ==
    /\ pc = "awaiting"
    /\ inflight = 1
    /\ search_mode = ModeComplete
    /\ Len(calls) = 1

\* What a submission must call and show, from its own form values, mode and
\* backend response alone.
C10_HotelLocation == IF use_flight_destination THEN destination ELSE hotel_text
C10_FlightReq ==
    Some(FlightRequest(origin, destination, DateStr(outbound_date), DateStr(return_date)))
C10_HotelReq ==
    Some(HotelRequest(C10_HotelLocation, DateStr(check_in_date), DateStr(check_out_date)))
C10_Calls ==
    IF InputMissing THEN <<>>
    ELSE IF search_mode = ModeFlights
    THEN <<Call("search_flights_endpoint", C10_FlightReq, None)>>
    ELSE IF search_mode = ModeHotels
    THEN <<Call("search_hotels_endpoint", None, C10_HotelReq)>>
    ELSE <<Call("complete_travel_search", C10_FlightReq, C10_HotelReq)>>
C10_Tabs ==
    IF InputMissing \/ response.kind # "return" THEN <<>> ELSE TabLabels(search_mode)
C10_Page ==
    IF InputMissing THEN <<El(-1, "error", "Please provide origin and destination.", 0, 0)>>
    ELSE IF response.kind = "raise"
    THEN <<El(-1, "error", "Search failed: " \o response.msg, 0, 0)>>
    ELSE LET r == response.value[1] IN
         (IF search_mode # ModeHotels THEN FlightsElements(r) ELSE <<>>)
         \o (IF search_mode # ModeFlights THEN HotelsElements(search_mode, r) ELSE <<>>)
         \o RecElements(search_mode, r)
         \o (IF search_mode = ModeComplete THEN ItineraryElements(r) ELSE <<>>)

\* C10: nothing is carried from one submission to the next: at the end of
\* every submission, whatever came before it, the calls made, the tabs
\* created and the page shown are those its own form values, mode and
\* backend response determine, so no result or error of an earlier
\* submission is on the page.
C10_NoCarriedState ==
    pc = "done" =>
        /\ (InputMissing <=> response.kind = "none")
        /\ calls = C10_Calls
        /\ tabs = C10_Tabs
        /\ shown = C10_Page

C10_Witness ==
    /\ pc = "done"
    /\ prev_outcome = "return"
    /\ response.kind = "raise"
    /\ shown = <<El(-1, "error", "Search failed: " \o response.msg, 0, 0)>>

(***************************************************************************)
(* Properties of debug_ai.py, checked under DiagSpec.                      *)
(***************************************************************************)
Printed(line) == \E i \in DOMAIN out : out[i] = line
PrintedPrefix(p) == \E i \in DOMAIN out : StartsWith(out[i], p)

\* The key check (lines 14-27) has run.
KeyChecked == Printed("Checking API Key configuration...")

\* The classifications the output reports.
Reported ==
    {c \in {"absent", "placeholder", "too-short", "plausible"} :
        \/ c = "absent" /\ PrintedPrefix("ERROR: GOOGLE_API_KEY not found")
        \/ c = "placeholder" /\ PrintedPrefix("CRITICAL ERROR: API Key appears to be the PLACEHOLDER")
        \/ c = "too-short" /\ PrintedPrefix("WARNING: API Key seems too short")
        \/ c = "plausible" /\ PrintedPrefix("API Key seems valid format")}

KeyAbsent == api_key = None \/ api_key[1] = ""

\* C6 (as stated): the one classification printed is absent for an unset or
\* empty key, placeholder for a key equal to "your_google_api_key_here",
\* too short for any other key of fewer than 30 characters, and valid format
\* for any other key of at least 30 characters.
C6_Original ==
    KeyChecked =>
        Reported = { IF KeyAbsent THEN "absent"
                     ELSE IF api_key[1] = "your_google_api_key_here" THEN "placeholder"
                     ELSE IF Len(api_key[1]) < 30 THEN "too-short"
                     ELSE "plausible" }

\* C6 (amended): once the key check has run, exactly one classification is
\* printed: absent for an unset or empty key; placeholder for a key that
\* contains "your_google_api_key_here" anywhere in it; too short for a key
\* without the placeholder and fewer than 30 characters; valid format for a
\* key without the placeholder and at least 30 characters.
C6_Classification ==
    KeyChecked =>
        Reported = { IF KeyAbsent THEN "absent"
                     ELSE IF Contains("your_google_api_key_here", api_key[1]) THEN "placeholder"
                     ELSE IF Len(api_key[1]) < 30 THEN "too-short"
                     ELSE "plausible" }

C6_Witness ==
    /\ KeyChecked
    /\ api_key # None
    /\ Len(api_key[1]) >= 30
    /\ api_key[1] # "your_google_api_key_here"
    /\ Contains("your_google_api_key_here", api_key[1])
    /\ Reported = {"placeholder"}

\* C7 (as stated): with the key absent the script reports the error and ends
\* without entering the connection test or reaching crew.kickoff(); with a
\* key present the connection test is entered exactly once.
C7_Original ==
    /\ KeyAbsent => (attempts = 0 /\ kickoffs = 0)
    /\ (~KeyAbsent /\ d_pc = "exited" /\ KeyChecked) => attempts = 1
    /\ attempts <= 1 /\ kickoffs <= 1

\* C7 (amended): an absent key is reported and is not fatal: every run that
\* reaches the key check, with the key absent or present, enters the
\* connection test exactly once, calls crew.kickoff() at most once and
\* never retries.
C7_AbsentKeyNotFatal ==
    /\ attempts <= 1 /\ kickoffs <= attempts
    /\ (KeyChecked /\ KeyAbsent) => Reported = {"absent"}
    /\ (KeyChecked /\ d_pc \in {"end", "exited"}) => attempts = 1
    /\ kickoffs = 1 => d_pc \in {"in_kickoff", "end", "exited"}

C7_Witness ==
    /\ api_key = None
    /\ d_pc = "exited"
    /\ Printed("ERROR: GOOGLE_API_KEY not found in environment or .env file")
    /\ attempts = 1
    /\ kickoffs = 1

====
